---- MODULE Spec2Model ----
(***************************************************************************)
(* Task service: the generic repository (app/crud/base.py BaseCRUD) over   *)
(* the tasks table (app/models/task.py), driven by the five endpoints of   *)
(* app/api/api_v1/tasks.py.  Every request runs in its own session         *)
(* (app/dependencies.py get_db_session); the store is PostgreSQL at READ   *)
(* COMMITTED: a statement sees what is committed when it runs, a pending   *)
(* write of a transaction is invisible to the others and holds the row's   *)
(* lock until commit or rollback.                                          *)
(***************************************************************************)
EXTENDS Integers, Sequences, FiniteSets, TLC

\* ---------------------------------------------------------------- bounds
MaxReq == 3          \* requests started in one behaviour, one at a time
MaxReqConc == 2      \* requests started in one behaviour, two in flight
MaxClock == 1        \* readings of the clock: 0..MaxClock

\* ---------------------------------------------------- program constants
MaxInfoLen == 1024   \* task_info: String(1024)
DefaultLimit == 100  \* get_many(db, skip=0, limit=100)

Slots == {1, 2}

\* ---------------------------------------------------------------- values
None == "None"
Unset == "Unset"

\* Length of the task_info texts the model uses.
InfoLen(v) ==
  CASE v = "A" -> 11
    [] v = "B" -> 13
    [] v = "L" -> MaxInfoLen + 1
    [] OTHER -> 0

\* class Task(Base): one row of the tasks table.
Task(id, created_at, updated_at, datetime_to_do, task_info) ==
  [id |-> id, created_at |-> created_at, updated_at |-> updated_at,
   datetime_to_do |-> datetime_to_do, task_info |-> task_info]

\* The absent entity (Python None where an entity is expected).
NoTask == Task(0, 0, 0, None, None)

\* obj_in: a schema object or a dict; Unset marks a field that was not set,
\* extra a key that is no column of the model (a dict only).
ObjIn(kind, datetime_to_do, task_info, extra) ==
  [kind |-> kind, datetime_to_do |-> datetime_to_do, task_info |-> task_info,
   extra |-> extra, created_at |-> Unset]

\* A dict that also holds the key created_at (Dict[str, Any]: any column of
\* the model may be a key), its value the datetime named v.
WithCreatedAt(obj_in, v) == [obj_in EXCEPT !.created_at = v]

\* The datetime named "future": later than every reading of the clock.
Future == MaxClock + 1

NoInput == ObjIn("dict", Unset, Unset, FALSE)

\* TaskCreate(TaskBase): both fields required; calls through the repository
\* may also pass a dict.
CreateInputs ==
  { ObjIn("schema", "d1", "A", FALSE),
    ObjIn("schema", "d2", "L", FALSE),
    ObjIn("dict", "d2", "B", FALSE),
    ObjIn("dict", Unset, "A", FALSE),
    ObjIn("dict", "d1", "A", TRUE),
    NoInput }

\* TaskUpdate(BaseModel): both fields optional, None allowed; calls through
\* the repository may also pass a dict, with any key.
UpdateInputs ==
  { ObjIn("schema", Unset, Unset, FALSE),
    ObjIn("schema", Unset, "B", FALSE),
    ObjIn("schema", "d2", Unset, FALSE),
    ObjIn("schema", Unset, None, FALSE),
    ObjIn("dict", "d2", "B", FALSE),
    ObjIn("dict", Unset, "B", TRUE),
    WithCreatedAt(ObjIn("dict", Unset, "B", FALSE), "future") }

\* The Authorization header of a request: a bearer token that decodes, one
\* that does not, or none.
Tokens == {"valid", "invalid", "missing"}

\* skip and limit of GET /list.
ListInputs ==
  { [skip |-> 0, limit |-> DefaultLimit],
    [skip |-> 0, limit |-> 0],
    [skip |-> 1, limit |-> 1] }

\* obj_in if isinstance(obj_in, dict) else obj_in.model_dump(exclude_unset=True):
\* the keys of create_data / update_data.
ModelDump(obj_in) ==
  {f \in {"created_at", "datetime_to_do", "task_info"} : obj_in[f] # Unset}
    \cup (IF obj_in.extra THEN {"extra"} ELSE {})

VARIABLES
  rows,      \* the committed rows of the tasks table, in scan order
  nextId,    \* the next value of the id sequence
  now,       \* the clock read by utc_now
  req,       \* per slot: the request in flight and its session
  started,   \* requests started so far
  conc,      \* how many requests may be in flight together
  sessions   \* the sessions of the session factory that are open

vars == <<rows, nextId, now, req, started, conc, sessions>>

NoTx == [kind |-> "none", row |-> NoTask, set |-> {}]

Idle ==
  [op |-> "idle", pc |-> "idle", id |-> 0, skip |-> 0, limit |-> 0,
   inp |-> NoInput, obj |-> NoTask, old |-> NoTask, tx |-> NoTx, log |-> <<>>,
   exc |-> "none", ret |-> NoTask, items |-> <<>>, status |-> 0,
   detail |-> "none", token |-> "pending", calls |-> <<>>, session |-> "none",
   committed |-> FALSE, removed |-> NoTask,
   fault |-> "none", got |-> "pending", matched |-> -1, sent |-> 0, pre |-> <<>>]

\* ------------------------------------------------------------ the clock
\* datetime.now(timezone.utc) when the clock read t last: time may have passed.
Later(t) == {u \in {t, t + 1} : u <= MaxClock}

\* ------------------------------------------------------------ the store
Ids(rs) == {rs[i].id : i \in DOMAIN rs}

Min(a, b) == IF a < b THEN a ELSE b

\* select(self.model).filter(self.model.id == id) ... .first()
RowOf(rs, id) ==
  IF \E i \in DOMAIN rs : rs[i].id = id
  THEN rs[CHOOSE i \in DOMAIN rs : rs[i].id = id]
  ELSE NoTask

\* The rows of rs without the row id, their order kept.
Without(rs, id) == SelectSeq(rs, LAMBDA r : r.id # id)

\* Another transaction holds the lock of row id (a pending UPDATE or DELETE).
Locked(s, id) ==
  \E t \in Slots \ {s} :
    req[t].tx.kind \in {"update", "delete"} /\ req[t].tx.row.id = id

\* NOT NULL on datetime_to_do and task_info, String(1024) on task_info.
Rejected(row) ==
  \/ row.datetime_to_do = None
  \/ row.task_info = None
  \/ InfoLen(row.task_info) > MaxInfoLen

\* -------------------------------------------------------- the repository
\* CrudGet gone wrong: a missing row is raised instead of returned as None.
CrudGetRaisesOnMissing(rs, id, fault) ==
  IF fault \/ RowOf(rs, id) = NoTask
  THEN [exc |-> "CRUDException", obj |-> NoTask]
  ELSE [exc |-> "none", obj |-> RowOf(rs, id)]

\* BaseCRUD.get: the instance or None; a storage fault becomes CRUDException.
CrudGet(rs, id, fault) ==
  IF fault
  THEN [exc |-> "CRUDException", obj |-> NoTask]
  ELSE [exc |-> "none", obj |-> RowOf(rs, id)]

\* BaseCRUD.get_many: select(self.model).offset(skip).limit(limit), no ORDER BY:
\* the rows come in scan order.
GetManyItems(rs, skip, limit) ==
  SubSeq(rs, skip + 1, Min(Len(rs), skip + limit))

\* NoCreateData gone wrong: the emptiness check is left out.
NoCreateDataUnchecked(create_data) == FALSE

\* if not create_data: raise CreateError("No data provided for creation")
NoCreateData(create_data) == create_data = {}

\* NoUpdateData gone wrong: the early return is left out.
NoUpdateDataUnchecked(update_data) == FALSE

\* if not update_data: return db_obj
NoUpdateData(update_data) == update_data = {}

\* db_obj = self.model(**create_data): the columns not given stay None.
NewTask(obj_in) ==
  Task(0, 0, 0,
       IF obj_in.datetime_to_do = Unset THEN None ELSE obj_in.datetime_to_do,
       IF obj_in.task_info = Unset THEN None ELSE obj_in.task_info)

\* InsertedTask gone wrong: the key is not drawn from the sequence.
InsertedTaskFixedKey(db_obj, id, t, d) ==
  [db_obj EXCEPT !.id = 1, !.created_at = t, !.updated_at = t + d]

\* The INSERT of the flush: id from the sequence, created_at from the first
\* call of utc_now (at t), updated_at from the second (at t + d).
InsertedTask(db_obj, id, t, d) ==
  [db_obj EXCEPT !.id = id, !.created_at = t, !.updated_at = t + d]

\* UpdatedTask gone wrong: datetime_to_do of the input is not written.
UpdatedTaskInfoOnly(row, obj_in, t) ==
  [row EXCEPT
     !.task_info = IF obj_in.task_info = Unset THEN @ ELSE obj_in.task_info,
     !.updated_at = t]

\* for field in update_data: setattr(db_obj, field, ...) and
\* .values(**update_data), with onupdate=utc_now on updated_at (read at t).
UpdatedTask(row, obj_in, t) ==
  [row EXCEPT
     !.created_at = IF obj_in.created_at = Unset THEN @ ELSE Future,
     !.datetime_to_do =
        IF obj_in.datetime_to_do = Unset THEN @ ELSE obj_in.datetime_to_do,
     !.task_info = IF obj_in.task_info = Unset THEN @ ELSE obj_in.task_info,
     !.updated_at = t]

\* The committed UPDATE writes a new version of the row; without ORDER BY a
\* scan meets it where the old version was or after the other rows.
RowsAfterUpdate(rs, row, moved) ==
  IF moved
  THEN Append(Without(rs, row.id), row)
  ELSE [i \in DOMAIN rs |-> IF rs[i].id = row.id THEN row ELSE rs[i]]

\* RowsAfterDelete gone wrong: the DELETE removes nothing.
RowsAfterDeleteKept(rs, id) == rs

\* sqlalchemy_delete(self.model).where(self.model.id == id), committed.
RowsAfterDelete(rs, id) == Without(rs, id)

\* ---------------------------------------------------------- the endpoints
CrudErrors ==
  {"CRUDException", "NotFoundError", "CreateError", "UpdateError", "DeleteError"}

\* The except clauses of the endpoint functions; an exception that is no
\* CRUDException leaves the endpoint and is answered 500 by the framework.
Status(op, exc) ==
  CASE exc = "none" -> IF op = "create" THEN 201 ELSE 200
    [] exc = "NotFoundError" /\ op \in {"get", "update", "delete"} -> 404
    [] OTHER -> 500

\* Detail gone wrong: the message of the exception is passed on.
DetailOfException(op, exc) ==
  CASE exc = "none" -> "none"
    [] exc \in CrudErrors -> exc
    [] OTHER -> "none"

\* The detail of the HTTPException: str(e) of the NotFoundError for 404, the
\* fixed text for every other CRUDException; an exception that is no
\* CRUDException is answered by the framework, without a detail.
Detail(op, exc) ==
  CASE exc = "none" -> "none"
    [] exc = "NotFoundError" /\ op \in {"get", "update", "delete"} -> "not found"
    [] exc \in CrudErrors -> "Internal server error"
    [] OTHER -> "none"

\* The call returns ret or raises exc; the endpoint answers.
Answer(r, exc, ret) ==
  [r EXCEPT !.pc = "done", !.exc = exc, !.ret = ret,
            !.status = Status(r.op, exc), !.detail = Detail(r.op, exc)]

\* await db.rollback() in an except clause: the pending write is dropped.
Rollback(r) == [r EXCEPT !.tx = NoTx, !.log = Append(@, "rollback")]

\* The storage layer raised a SQLAlchemyError: the connection failed, the
\* statement was rejected, or refresh found no row.
Raised(r, what) == [r EXCEPT !.fault = what]

Call(r, what) == [r EXCEPT !.log = Append(@, what)]

\* The endpoint calls the method what of the repository.
Repo(r, what) == [r EXCEPT !.calls = Append(@, what)]

\* What the call of BaseCRUD.get came to: it raised, or returned None or the
\* instance.
Got(r, g, fault) ==
  [r EXCEPT !.got = IF g.exc # "none" THEN "raised"
                    ELSE IF g.obj = NoTask THEN "None" ELSE "instance",
            !.fault = IF fault THEN "connection" ELSE @]

Active == {s \in Slots : req[s].op # "idle"}

\* Sending the response and closing the session touch nothing that another
\* request reads: an answered request is finished before anything else runs.
Answered == \E s \in Slots : req[s].pc = "done"

\* Validating the token touches nothing that another request reads either:
\* a request that has arrived is validated before anything else runs.
Validating == \E s \in Slots : req[s].pc = "auth"

\* Request s is the call op at the step pc.
At(s, op, pc) == ~Answered /\ ~Validating /\ req[s].op = op /\ req[s].pc = pc

\* A new request takes the first free session.
CanStart(s) ==
  /\ ~Answered
  /\ ~Validating
  /\ req[s].op = "idle"
  /\ \A t \in Slots : t < s => req[t].op # "idle"
  /\ Cardinality(Active) < conc
  /\ started < (IF conc = 1 THEN MaxReq ELSE MaxReqConc)

\* The table as a request finds it, kept for the requests that run alone.
Found == IF conc = 1 THEN rows ELSE <<>>

Start(s, r) ==
  /\ CanStart(s)
  /\ req' = [req EXCEPT ![s] = [r EXCEPT !.pre = Found]]
  /\ started' = started + 1
  /\ UNCHANGED <<rows, nextId, now, conc, sessions>>

\* ------------------------------------------------- requests: entry points
\* task_id of a request: the id of the first row, or the id the sequence gives
\* next, which no row has had.
TaskIds == {1, nextId}

\* POST /create
BeginCreate(s) == Start(s, [Idle EXCEPT !.op = "create", !.pc = "auth"])

\* GET /list
BeginList(s) == Start(s, [Idle EXCEPT !.op = "list", !.pc = "auth"])

\* GET /{task_id}
BeginGet(s) == Start(s, [Idle EXCEPT !.op = "get", !.pc = "auth"])

\* PATCH /{task_id}/update
BeginUpdate(s) == Start(s, [Idle EXCEPT !.op = "update", !.pc = "auth"])

\* DELETE /{task_id}
BeginDelete(s) == Start(s, [Idle EXCEPT !.op = "delete", !.pc = "auth"])

\* The parameters of the endpoint function, resolved once the router's
\* dependency has passed: task_payload, skip and limit, task_id.
Params(r) ==
  CASE r.op = "create" -> {[r EXCEPT !.inp = obj_in] : obj_in \in CreateInputs}
    [] r.op = "list" ->
         {[r EXCEPT !.skip = page.skip, !.limit = page.limit] : page \in ListInputs}
    [] r.op = "update" ->
         {[r EXCEPT !.id = id, !.inp = obj_in] : id \in TaskIds, obj_in \in UpdateInputs}
    [] OTHER -> {[r EXCEPT !.id = id] : id \in TaskIds}

\* ------------------------------------------------------- authentication
\* JwtDecode gone wrong: the signature is not verified.
JwtDecodeUnverified(token) == IF token = "missing" THEN "missing" ELSE "payload"

\* oauth2_scheme and jwt.decode(token, SECRET_KEY, algorithms=[ALGORITHM]).
JwtDecode(token) ==
  CASE token = "valid" -> "payload"
    [] token = "invalid" -> "JWTError"
    [] OTHER -> "missing"

\* Where the endpoint function of op starts.
Entry(op) ==
  CASE op = "create" -> "create"
    [] op = "list" -> "get_many"
    [] OTHER -> "get"

\* get_db_session -> session_getter: async with self.session_factory() as
\* session: yield session.  The request has its session from here on.
GetDbSession(r) == [r EXCEPT !.session = "open"]

\* The router's dependency get_current_user, resolved before the endpoint's
\* own dependencies and before the endpoint function: a token that does not
\* decode, or no token, is answered 401 and the request ends there.  With
\* the token accepted the endpoint's parameters and dependencies are
\* resolved: the request gets its session.
GetCurrentUser(s) ==
  /\ ~Answered
  /\ req[s].pc = "auth"
  /\ \E token \in Tokens :
       LET r == [req[s] EXCEPT !.token = token]
           payload == JwtDecode(token)
       IN IF payload = "payload"
          THEN /\ \E p \in Params(r) :
                    req' = [req EXCEPT ![s] =
                              [GetDbSession(p) EXCEPT !.pc = Entry(r.op)]]
               /\ sessions' = sessions + 1
          ELSE /\ req' = [req EXCEPT ![s] =
                    [r EXCEPT !.pc = "done", !.status = 401,
                       !.detail = IF payload = "JWTError"
                                  THEN "Could not validate credentials"
                                  ELSE "Not authenticated"]]
               /\ UNCHANGED sessions
  /\ UNCHANGED <<rows, nextId, now, started, conc>>

\* ------------------------------------------------------------ get, list
\* read_single_task_endpoint: get, then NotFoundError on None.
ReadSingleTask(s) ==
  /\ At(s, "get", "get")
  /\ \E fault \in BOOLEAN :
       LET g == CrudGet(rows, req[s].id, fault)
           r == Got(Call(Repo(req[s], "get"), "execute_select"), g, fault)
       IN req' = [req EXCEPT ![s] =
            IF g.exc # "none" THEN Answer(r, g.exc, NoTask)
            ELSE IF g.obj = NoTask THEN Answer(r, "NotFoundError", NoTask)
            ELSE Answer([r EXCEPT !.obj = g.obj], "none", g.obj)]
  /\ UNCHANGED <<rows, nextId, now, started, conc, sessions>>

\* read_all_tasks_endpoint / BaseCRUD.get_many
GetMany(s) ==
  /\ At(s, "list", "get_many")
  /\ \E fault \in BOOLEAN :
       LET r == Call(Repo(req[s], "get_many"), "execute_select")
       IN req' = [req EXCEPT ![s] =
            IF fault THEN Answer(Raised(r, "connection"), "CRUDException", NoTask)
            ELSE Answer([r EXCEPT !.items = GetManyItems(rows, r.skip, r.limit)],
                        "none", NoTask)]
  /\ UNCHANGED <<rows, nextId, now, started, conc, sessions>>

\* ---------------------------------------------------------------- create
\* create_data, the emptiness check, self.model(**create_data), db.add.
CreateAdd(s) ==
  /\ At(s, "create", "create")
  /\ LET r == Repo(req[s], "create")
         create_data == ModelDump(r.inp)
     IN req' = [req EXCEPT ![s] =
          IF NoCreateData(create_data) THEN Answer(r, "CreateError", NoTask)
          ELSE IF "extra" \in create_data THEN Answer(r, "TypeError", NoTask)
          ELSE [Call(r, "add") EXCEPT !.obj = NewTask(r.inp), !.pc = "flush"]]
  /\ UNCHANGED <<rows, nextId, now, started, conc, sessions>>

\* await db.commit(), first half: the flush sends the INSERT.  The two column
\* defaults call utc_now one after the other, at t and at t + d: the clock may
\* advance between the two calls.
CreateFlush(s) ==
  /\ At(s, "create", "flush")
  /\ \E fault \in BOOLEAN, t \in Later(now), d \in {0, 1} :
       /\ t + d <= MaxClock
       /\ LET r == Call(req[s], "commit")
              row == InsertedTask(r.obj, nextId, t, d)
          IN IF fault
             THEN /\ req' = [req EXCEPT ![s] =
                       Answer(Rollback(Raised(r, "connection")), "CreateError", NoTask)]
                  /\ UNCHANGED <<nextId, now>>
             ELSE /\ nextId' = nextId + 1
                  /\ now' = t + d
                  /\ req' = [req EXCEPT ![s] =
                       IF Rejected(row)
                       THEN Answer(Rollback(Raised(r, "rejected")), "CreateError", NoTask)
                       ELSE [r EXCEPT !.obj = row, !.pc = "commit",
                               !.tx = [kind |-> "insert", row |-> row, set |-> {}]]]
  /\ UNCHANGED <<rows, started, conc, sessions>>

\* await db.commit(), second half: COMMIT.
CreateCommit(s) ==
  /\ At(s, "create", "commit")
  /\ \E fault \in BOOLEAN :
       LET r == req[s]
       IN IF fault
          THEN /\ req' = [req EXCEPT ![s] =
                    Answer(Rollback(Raised(r, "connection")), "CreateError", NoTask)]
               /\ UNCHANGED rows
          ELSE /\ rows' = Append(rows, r.tx.row)
               /\ req' = [req EXCEPT ![s] =
                    [r EXCEPT !.tx = NoTx, !.pc = "refresh", !.committed = TRUE]]
  /\ UNCHANGED <<nextId, now, started, conc, sessions>>

\* await db.refresh(db_obj): the row is read again by its key; no row found
\* raises InvalidRequestError, a SQLAlchemyError.
CreateRefresh(s) ==
  /\ At(s, "create", "refresh")
  /\ \E fault \in BOOLEAN :
       LET r == Call(req[s], "refresh")
           row == RowOf(rows, r.obj.id)
       IN req' = [req EXCEPT ![s] =
            IF fault
            THEN Answer(Rollback(Raised(r, "connection")), "CreateError", NoTask)
            ELSE IF row = NoTask
            THEN Answer(Rollback(Raised(r, "gone")), "CreateError", NoTask)
            ELSE Answer([r EXCEPT !.obj = row], "none", row)]
  /\ UNCHANGED <<rows, nextId, now, started, conc, sessions>>

\* ---------------------------------------------------------------- update
\* update_existing_task_endpoint: get, then NotFoundError on None.
UpdateLookup(s) ==
  /\ At(s, "update", "get")
  /\ \E fault \in BOOLEAN :
       LET g == CrudGet(rows, req[s].id, fault)
           r == Got(Call(Repo(req[s], "get"), "execute_select"), g, fault)
       IN req' = [req EXCEPT ![s] =
            IF g.exc # "none" THEN Answer(r, g.exc, NoTask)
            ELSE IF g.obj = NoTask THEN Answer(r, "NotFoundError", NoTask)
            ELSE [r EXCEPT !.obj = g.obj, !.old = g.obj, !.pc = "update"]]
  /\ UNCHANGED <<rows, nextId, now, started, conc, sessions>>

\* MatchedRow gone wrong: the row is written back as the session fetched it.
MatchedRowAsFetched(rs, r) ==
  IF RowOf(rs, r.obj.id) = NoTask THEN NoTask ELSE r.old

\* The row the WHERE clause of the UPDATE matches: the row of that id as it
\* is committed when the statement runs.
MatchedRow(rs, r) == RowOf(rs, r.obj.id)

\* UpdateStatement gone wrong: the entity is written though no row matched.
UpdateStatementUpsert(r, t) ==
  LET row == UpdatedTask(r.obj, r.inp, t)
  IN [r EXCEPT !.matched = 1, !.pc = "commit",
        !.tx = [kind |-> "update", row |-> row, set |-> ModelDump(r.inp)]]

\* The UPDATE ... WHERE id = db_obj.id has reached the store at clock reading
\* t: a constraint rejects it, or it matches the committed row or no row.
UpdateStatement(r, t) ==
  LET target == MatchedRow(rows, r)
      row == UpdatedTask(target, r.inp, t)
  IN IF target = NoTask
     THEN [r EXCEPT !.matched = 0, !.pc = "commit"]
     ELSE IF Rejected(row)
     THEN Answer(Rollback(Raised(r, "rejected")), "UpdateError", NoTask)
     ELSE [r EXCEPT !.matched = 1, !.pc = "commit",
             !.tx = [kind |-> "update", row |-> row, set |-> ModelDump(r.inp)]]

\* BaseCRUD.update up to db.execute: update_data, the no-op return, setattr,
\* the UPDATE statement with updated_at = utc_now().  When another
\* transaction holds the row's lock the statement waits in the store.
UpdateExecute(s) ==
  /\ At(s, "update", "update")
  /\ \E fault \in BOOLEAN, t \in Later(now) :
       LET r == Repo(req[s], "update")
           update_data == ModelDump(r.inp)
           x == Call([r EXCEPT !.obj = UpdatedTask(r.obj, r.inp, r.obj.updated_at),
                               !.sent = t],
                     "execute_update")
           sent == ~NoUpdateData(update_data) /\ ~fault /\ "extra" \notin update_data
       IN /\ req' = [req EXCEPT ![s] =
               IF NoUpdateData(update_data) THEN Answer(r, "none", r.obj)
               ELSE IF fault
               THEN Answer(Rollback(Raised(x, "connection")), "UpdateError", NoTask)
               ELSE IF "extra" \in update_data
               THEN Answer(Rollback(Raised(x, "rejected")), "UpdateError", NoTask)
               ELSE IF Locked(s, r.obj.id) THEN [x EXCEPT !.pc = "update_wait"]
               ELSE UpdateStatement(x, t)]
          /\ now' = IF sent THEN t ELSE now
  /\ UNCHANGED <<rows, nextId, started, conc, sessions>>

\* The lock is released: the waiting UPDATE, whose updated_at was read when
\* it was sent, goes on against what is committed now.
UpdateResume(s) ==
  /\ At(s, "update", "update_wait")
  /\ ~Locked(s, req[s].obj.id)
  /\ req' = [req EXCEPT ![s] = UpdateStatement(req[s], req[s].sent)]
  /\ UNCHANGED <<rows, nextId, now, started, conc, sessions>>

\* await db.commit()
UpdateCommit(s) ==
  /\ At(s, "update", "commit")
  /\ \E fault \in BOOLEAN, moved \in BOOLEAN :
       LET r == Call(req[s], "commit")
       IN IF fault
          THEN /\ req' = [req EXCEPT ![s] =
                    Answer(Rollback(Raised(r, "connection")), "UpdateError", NoTask)]
               /\ UNCHANGED rows
          ELSE /\ rows' = IF r.tx.kind = "update"
                          THEN RowsAfterUpdate(rows, r.tx.row, moved)
                          ELSE rows
               /\ req' = [req EXCEPT ![s] =
                    [r EXCEPT !.tx = NoTx, !.pc = "refresh",
                       !.committed = (r.tx.kind = "update")]]
  /\ UNCHANGED <<nextId, now, started, conc, sessions>>

\* await db.refresh(db_obj)
UpdateRefresh(s) ==
  /\ At(s, "update", "refresh")
  /\ \E fault \in BOOLEAN :
       LET r == Call(req[s], "refresh")
           row == RowOf(rows, r.obj.id)
       IN req' = [req EXCEPT ![s] =
            IF fault
            THEN Answer(Rollback(Raised(r, "connection")), "UpdateError", NoTask)
            ELSE IF row = NoTask
            THEN Answer(Rollback(Raised(r, "gone")), "UpdateError", NoTask)
            ELSE Answer([r EXCEPT !.obj = row], "none", row)]
  /\ UNCHANGED <<rows, nextId, now, started, conc, sessions>>

\* ---------------------------------------------------------------- delete
\* BaseCRUD.delete: obj = await self.get(db, id), NotFoundError on None.  The
\* CRUDException of get is no SQLAlchemyError: it passes the except clause.
DeleteLookup(s) ==
  /\ At(s, "delete", "get")
  /\ \E fault \in BOOLEAN :
       LET g == CrudGet(rows, req[s].id, fault)
           r == Got(Call(Repo(req[s], "delete"), "execute_select"), g, fault)
       IN req' = [req EXCEPT ![s] =
            IF g.exc # "none" THEN Answer(r, g.exc, NoTask)
            ELSE IF g.obj = NoTask THEN Answer(r, "NotFoundError", NoTask)
            ELSE [r EXCEPT !.obj = g.obj, !.old = g.obj, !.pc = "delete"]]
  /\ UNCHANGED <<rows, nextId, now, started, conc, sessions>>

\* db.execute(sqlalchemy_delete(...).where(id == id)); it waits for the lock.
DeleteExecute(s) ==
  /\ At(s, "delete", "delete")
  /\ ~Locked(s, req[s].id)
  /\ \E fault \in BOOLEAN :
       LET r == Call(req[s], "execute_delete")
           target == RowOf(rows, r.id)
       IN req' = [req EXCEPT ![s] =
            IF fault
            THEN Answer(Rollback(Raised(r, "connection")), "DeleteError", NoTask)
            ELSE IF target = NoTask THEN [r EXCEPT !.matched = 0, !.pc = "commit"]
            ELSE [r EXCEPT !.matched = 1, !.pc = "commit",
                    !.tx = [kind |-> "delete", row |-> target, set |-> {}]]]
  /\ UNCHANGED <<rows, nextId, now, started, conc, sessions>>

\* await db.commit(); return obj
DeleteCommit(s) ==
  /\ At(s, "delete", "commit")
  /\ \E fault \in BOOLEAN :
       LET r == Call(req[s], "commit")
       IN IF fault
          THEN /\ req' = [req EXCEPT ![s] =
                    Answer(Rollback(Raised(r, "connection")), "DeleteError", NoTask)]
               /\ UNCHANGED rows
          ELSE /\ rows' = IF r.tx.kind = "delete"
                          THEN RowsAfterDelete(rows, r.id)
                          ELSE rows
               /\ req' = [req EXCEPT ![s] =
                    Answer([r EXCEPT !.tx = NoTx,
                              !.committed = (r.tx.kind = "delete"),
                              !.removed = r.tx.row],
                           "none", r.obj)]
  /\ UNCHANGED <<nextId, now, started, conc, sessions>>

\* ------------------------------------------------------------------ rest
\* SessionsAfterExit gone wrong: the session is closed only when the endpoint
\* returned.
SessionsAfterExitOnReturn(n, r) ==
  IF r.session = "open" /\ r.exc = "none" THEN n - 1 ELSE n

\* The exit of "async with self.session_factory() as session", on return and
\* on every exception thrown into the generator: the session is closed.
SessionsAfterExit(n, r) == IF r.session = "open" THEN n - 1 ELSE n

\* The response is sent and the request's session is closed
\* (session_getter: async with self.session_factory() as session).  The
\* requests in flight are kept in their order of arrival.
Finish(s) ==
  /\ req[s].pc = "done"
  /\ sessions' = SessionsAfterExit(sessions, req[s])
  /\ req' = [t \in Slots |->
               IF t < s THEN req[t]
               ELSE IF t + 1 \in Slots THEN req[t + 1] ELSE Idle]
  /\ UNCHANGED <<rows, nextId, now, started, conc>>

\* The store of the test suite (conftest.py test_tasks): two tasks created one
\* after the other, "Test task 1" and "Test task 2".
TestTasks == <<Task(1, 0, 0, "d1", "A"), Task(2, 0, 0, "d2", "B")>>

\* The service starts on an empty table or on the table of the test suite.
InitStore ==
  /\ rows \in {<<>>, TestTasks}
  /\ nextId = Len(rows) + 1
  /\ now = 0
  /\ req = [s \in Slots |-> Idle]
  /\ started = 0
  /\ sessions = 0

\* Requests overlap: two sessions at a time.
Init == InitStore /\ conc = 2

\* Requests come one after the other.
SeqInit == InitStore /\ conc = 1

Step(s) ==
  \/ BeginCreate(s) \/ BeginList(s) \/ BeginGet(s)
  \/ BeginUpdate(s) \/ BeginDelete(s)
  \/ GetCurrentUser(s)
  \/ ReadSingleTask(s) \/ GetMany(s)
  \/ CreateAdd(s) \/ CreateFlush(s) \/ CreateCommit(s) \/ CreateRefresh(s)
  \/ UpdateLookup(s) \/ UpdateExecute(s) \/ UpdateCommit(s) \/ UpdateRefresh(s)
  \/ DeleteLookup(s) \/ DeleteExecute(s) \/ DeleteCommit(s)

Next == \E s \in Slots : Step(s) \/ UpdateResume(s) \/ Finish(s)

\* One request at a time never waits for a lock.
SeqNext == Step(1) \/ Finish(1)

Spec == Init /\ [][Next]_vars

SeqSpec == SeqInit /\ [][SeqNext]_vars

\* ================================================================ claims
\* Request s passed the router's dependency and its endpoint has answered.
Done(s) == req[s].pc = "done" /\ req[s].token = "valid"

\* A create-input that sets datetime_to_do and task_info, the text within
\* String(1024).
ValidCreate(obj_in) ==
  /\ ModelDump(obj_in) = {"datetime_to_do", "task_info"}
  /\ ~Rejected(NewTask(obj_in))

\* The connection to the store did not fail during the request.
Connected(s) == req[s].fault # "connection"

\* C1: a create whose input sets datetime_to_do and task_info (at most 1024
\* characters) succeeds, the store's connection holding: the entity returned
\* is a row of the store, its id comes from the store's sequence and is the
\* id of no other row, before or after; its datetime_to_do and task_info are
\* those supplied; get(id) then returns a row with that task_info.
C1_CreateReturnsPersistedEntity ==
  \A s \in Slots :
    (Done(s) /\ req[s].op = "create" /\ ValidCreate(req[s].inp) /\ Connected(s))
      => /\ req[s].exc = "none" /\ req[s].status = 201
         /\ req[s].ret.id = nextId - 1
         /\ req[s].ret.id \notin Ids(req[s].pre)
         /\ Cardinality({i \in DOMAIN rows : rows[i].id = req[s].ret.id}) = 1
         /\ RowOf(rows, req[s].ret.id) = req[s].ret
         /\ req[s].ret.datetime_to_do = req[s].inp.datetime_to_do
         /\ req[s].ret.task_info = req[s].inp.task_info
         /\ CrudGet(rows, req[s].ret.id, FALSE).exc = "none"
         /\ CrudGet(rows, req[s].ret.id, FALSE).obj.task_info = req[s].inp.task_info

\* A valid create has returned its entity into a table that held other rows.
C1_Witness ==
  \E s \in Slots :
    /\ Done(s) /\ req[s].op = "create" /\ ValidCreate(req[s].inp)
    /\ req[s].exc = "none" /\ req[s].pre # <<>>
    /\ req[s].ret.task_info = "B" /\ req[s].ret.id = 3

\* C2: the entity a successful create returns has created_at = updated_at.
C2_CreatedEqualsUpdated ==
  \A s \in Slots :
    (Done(s) /\ req[s].op = "create" /\ req[s].exc = "none")
      => req[s].ret.created_at = req[s].ret.updated_at

C4_EmptyUpdateIsNoOp ==
  \A s \in Slots :
    (Done(s) /\ req[s].op = "update" /\ req[s].got = "instance"
       /\ ModelDump(req[s].inp) = {})
      => /\ req[s].exc = "none" /\ req[s].status = 200
         /\ req[s].ret = req[s].old
         /\ req[s].obj = req[s].old
         /\ req[s].log = <<"execute_select">>
         /\ req[s].tx = NoTx
         /\ rows = req[s].pre

\* An update without fields has returned its entity.
C4_Witness ==
  \E s \in Slots :
    /\ Done(s) /\ req[s].op = "update" /\ req[s].got = "instance"
    /\ ModelDump(req[s].inp) = {} /\ req[s].ret # NoTask

\* What a successful update with fields set returns, apart from updated_at.
UpdateApplied(r) ==
  /\ \A f \in {"datetime_to_do", "task_info"} :
       r.ret[f] = IF r.inp[f] = Unset THEN r.old[f] ELSE r.inp[f]
  /\ r.ret.id = r.old.id
  /\ r.ret.created_at = r.old.created_at
  /\ RowOf(rows, r.id) = r.ret

\* A successful update that set fields, all of them fields of TaskUpdate.
UpdatedWithFields(s) ==
  /\ Done(s) /\ req[s].op = "update" /\ req[s].exc = "none"
  /\ ModelDump(req[s].inp) # {}
  /\ ModelDump(req[s].inp) \subseteq {"datetime_to_do", "task_info"}

Inserting == {req[s].tx.row.id : s \in {t \in Slots : req[t].tx.kind = "insert"}}

C7_GetAbsentReturnsNone ==
  \A s \in Slots :
    (Done(s) /\ req[s].op = "get")
      => /\ rows = req[s].pre
         /\ req[s].tx = NoTx
         /\ (req[s].id \notin Ids(req[s].pre) /\ Connected(s))
              => (req[s].got = "None" /\ req[s].ret = NoTask)
         /\ (req[s].id \in Ids(req[s].pre) /\ Connected(s))
              => (req[s].got = "instance"
                    /\ req[s].ret = RowOf(rows, req[s].id))

\* A get of an id the table does not hold has returned None.
C7_Witness ==
  \E s \in Slots :
    /\ Done(s) /\ req[s].op = "get" /\ req[s].got = "None"
    /\ req[s].id \notin Ids(rows) /\ rows # <<>>

\* The rows in the order of their creation: ids come from a rising sequence.
ByInsertion(rs) ==
  CHOOSE q \in [DOMAIN rs -> {rs[i] : i \in DOMAIN rs}] :
    /\ \A i \in DOMAIN rs : \E j \in DOMAIN rs : q[j] = rs[i]
    /\ \A i, j \in DOMAIN rs : i < j => q[i].id < q[j].id

\* C8: list(skip, limit) returns the rows in the order of their creation, the
\* first skip rows dropped and at most limit rows returned; list(0, 0) and a
\* list of the empty table return the empty sequence.
C8_ListInInsertionOrder ==
  \A s \in Slots :
    (Done(s) /\ req[s].op = "list" /\ Connected(s))
      => /\ req[s].exc = "none"
         /\ req[s].items = GetManyItems(ByInsertion(rows), req[s].skip, req[s].limit)

\* C9: a request in which the storage layer raised has rolled back before it
\* signals, and signals a CRUDException or one of its classes.
C9_RollbackBeforeSignal ==
  \A s \in Slots :
    (Done(s) /\ req[s].fault # "none")
      => /\ req[s].exc \in CrudErrors
         /\ Len(req[s].log) > 0
         /\ req[s].log[Len(req[s].log)] = "rollback"

\* C10: a get, update or delete whose id has no row when the operation acts on
\* it (the lookup returns None, or the UPDATE or DELETE matches no row) is
\* answered 404 and changes no row.
C10_MissingRowAnswers404 ==
  \A s \in Slots :
    (Done(s) /\ Connected(s) /\ (req[s].got = "None" \/ req[s].matched = 0))
      => req[s].status = 404

\* C11: in each of the five endpoints a CreateError, UpdateError, DeleteError
\* or plain CRUDException is answered 500 with the detail "Internal server
\* error", whatever raised it; a create that succeeds is answered 201, a list
\* that succeeds 200 with a sequence of rows, which may be empty.
C11_FailuresAnswer500 ==
  \A s \in Slots :
    Done(s) =>
      /\ (req[s].exc \in CrudErrors \ {"NotFoundError"})
           => (req[s].status = 500 /\ req[s].detail = "Internal server error")
      /\ (req[s].op = "create" /\ req[s].exc = "none") => req[s].status = 201
      /\ (req[s].op = "list" /\ req[s].exc = "none")
           => /\ req[s].status = 200
              /\ req[s].items \in Seq({rows[i] : i \in DOMAIN rows})

\* An update the store rejected has been answered 500, the row being there.
C11_Witness ==
  \E s \in Slots :
    /\ Done(s) /\ req[s].op = "update" /\ req[s].exc = "UpdateError"
    /\ req[s].fault = "rejected" /\ req[s].status = 500
    /\ req[s].id \in Ids(rows)

\* C12: the token of a request is validated before any repository operation
\* of that request: while the validation is pending no repository method has
\* been called and no statement sent, and a request whose token does not
\* decode is answered 401 without a repository call, a statement or a pending
\* write, then and ever after.
C12_ValidationBeforeRepository ==
  \A s \in Slots :
    /\ (req[s].op # "idle" /\ req[s].token = "pending")
         => (req[s].calls = <<>> /\ req[s].log = <<>> /\ req[s].tx = NoTx)
    /\ req[s].token = "invalid"
         => /\ req[s].pc = "done" /\ req[s].status = 401
            /\ req[s].calls = <<>> /\ req[s].log = <<>> /\ req[s].tx = NoTx
            /\ req[s].got = "pending" /\ req[s].matched = -1
            /\ req[s].ret = NoTask /\ req[s].items = <<>>
    /\ req[s].calls # <<>> => req[s].token = "valid"

\* A delete sent with a token that does not decode has been answered 401 and
\* the rows are there.
C12_Witness ==
  \E s \in Slots :
    /\ req[s].op = "delete" /\ req[s].token = "invalid" /\ req[s].status = 401
    /\ rows # <<>>

\* C13 as stated: a session serves one repository call: no request makes two
\* repository calls in the same session.
C13_SessionPerCall ==
  \A s \in Slots : req[s].session = "open" => Len(req[s].calls) <= 1

\* C13, amended: a request acquires one session before its endpoint runs,
\* every repository call and statement of the request runs in it, and it is
\* released when the request ends, however it ends: the sessions open are
\* those of the requests in flight, and none is open when none is in flight.
C13_SessionPerRequest ==
  /\ sessions = Cardinality({s \in Slots : req[s].session = "open"})
  /\ \A s \in Slots :
       /\ (req[s].calls # <<>> \/ req[s].log # <<>> \/ req[s].tx # NoTx)
            => req[s].session = "open"
       /\ req[s].op = "idle" => req[s].session = "none"
  /\ Active = {} => sessions = 0

\* A create has ended on a failure after its INSERT was sent (the sequence
\* has advanced, the table is as it was), and no session is open.
C13_Witness ==
  /\ Active = {} /\ started = 1 /\ sessions = 0
  /\ rows = TestTasks /\ nextId = Len(rows) + 2

\* C14: update of a fetched entity with an input that holds a key the model
\* has no column for succeeds, the connection holding: nothing is raised and
\* the known fields that are set are applied.
C14_UnknownFieldIgnored ==
  \A s \in Slots :
    (Done(s) /\ req[s].op = "update" /\ req[s].got = "instance"
       /\ "extra" \in ModelDump(req[s].inp) /\ Connected(s))
      => /\ req[s].exc = "none" /\ req[s].status = 200
         /\ UpdateApplied(req[s])

\* C15: every row has created_at <= updated_at, no two rows share an id, and
\* created_at of a row is the same for as long as the row is there, whatever
\* is created, updated and deleted.
C15_RowInvariants ==
  /\ [](/\ \A i \in DOMAIN rows : rows[i].created_at <= rows[i].updated_at
        /\ \A i, j \in DOMAIN rows : rows[i].id = rows[j].id => i = j)
  /\ [][\A i \in DOMAIN rows, j \in DOMAIN rows' :
          rows[i].id = rows'[j].id => rows[i].created_at = rows'[j].created_at]_vars

\* C16: an update is seen by the other sessions all at once or not at all.  A
\* step changes a committed row only by the commit of a pending UPDATE, which
\* writes every field the update set and leaves the others as they were; and
\* an update that fails has committed nothing: the others see the row as it
\* was.
C16_UpdateAtomicForReaders ==
  /\ [][\A i \in DOMAIN rows, j \in DOMAIN rows' :
          (rows[i].id = rows'[j].id /\ rows[i] # rows'[j])
            => \E s \in Slots :
                 /\ req[s].tx.kind = "update" /\ req[s].tx.row = rows'[j]
                 /\ \A f \in {"datetime_to_do", "task_info"} :
                      rows'[j][f] = IF f \in req[s].tx.set THEN req[s].inp[f]
                                    ELSE rows[i][f]]_vars
  /\ [](\A s \in Slots :
          (Done(s) /\ req[s].op = "update" /\ req[s].exc \in CrudErrors)
            => ~req[s].committed)

\* C17: a delete that returns an entity has itself removed one row, and the
\* entity is that row as it was when it was removed: of two deletes of one id
\* that both looked the row up, one returns it and the other does not, and a
\* delete returns what an update committed after its lookup.
C17_DeleteReturnsWhatItRemoved ==
  \A s \in Slots :
    (Done(s) /\ req[s].op = "delete" /\ req[s].exc = "none")
      => /\ req[s].committed /\ req[s].matched = 1
         /\ req[s].removed # NoTask
         /\ req[s].ret = req[s].removed

\* C18: a create, update or delete that signals a failure has committed
\* nothing: the table is as the request found it.
C18_FailureCommitsNothing ==
  \A s \in Slots :
    (Done(s) /\ req[s].op \in {"create", "update", "delete"}
       /\ req[s].exc \in CrudErrors)
      => (~req[s].committed /\ rows = req[s].pre)

\* A step adds a row only by the commit of a create's INSERT, and then the
\* one row inserted; every other step leaves the ids in the table or removes
\* some.
OnlyCreateAddsRows ==
  \/ Ids(rows') \subseteq Ids(rows) /\ Len(rows') <= Len(rows)
  \/ \E s \in Slots :
       /\ req[s].op = "create" /\ req[s].tx.kind = "insert"
       /\ rows' = Append(rows, req[s].tx.row)

\* An update whose UPDATE matched no row, the row having been deleted since
\* it was fetched, does not succeed.
NoSuccessOnDeletedRow ==
  \A s \in Slots :
    (Done(s) /\ req[s].op = "update" /\ req[s].matched = 0)
      => (req[s].exc = "UpdateError" /\ req[s].id \notin Ids(rows))

\* C19 as stated: only create adds rows, and every update that returns
\* success returns an entity the table holds.
C19_UpdateReturnsPresentEntity ==
  /\ [][OnlyCreateAddsRows]_vars
  /\ [](NoSuccessOnDeletedRow
        /\ \A s \in Slots :
             (Done(s) /\ req[s].op = "update" /\ req[s].exc = "none")
               => req[s].ret.id \in Ids(rows))

\* C19, amended: only create adds rows; an update with at least one field set
\* whose row was deleted after it was fetched fails and does not bring the
\* row back, and one that returns success returns the row the table holds.
C19_OnlyCreateAddsRows ==
  /\ [][OnlyCreateAddsRows]_vars
  /\ [](NoSuccessOnDeletedRow
        /\ \A s \in Slots :
             (Done(s) /\ req[s].op = "update" /\ req[s].exc = "none"
                /\ ModelDump(req[s].inp) # {})
               => RowOf(rows, req[s].ret.id) = req[s].ret)

\* An update with fields set has failed on a row that was deleted after the
\* update fetched it, and the row is not there.
C19_Witness ==
  \E s \in Slots :
    /\ Done(s) /\ req[s].op = "update" /\ req[s].got = "instance"
    /\ req[s].matched = 0 /\ req[s].exc = "UpdateError"
    /\ req[s].id \notin Ids(rows) /\ rows # <<>>

\* Request s is an update whose UPDATE is committed.
CommittedUpdate(s) == req[s].op = "update" /\ req[s].committed

\* C20: when two updates of one row that set different fields are both
\* committed, in either order, the row has the value each of them set: an
\* update writes the fields its input set and no other.
C20_DisjointUpdatesBothKept ==
  \A a, b \in Slots :
    (a # b /\ CommittedUpdate(a) /\ CommittedUpdate(b)
       /\ req[a].id = req[b].id
       /\ ModelDump(req[a].inp) \cap ModelDump(req[b].inp) = {})
      => \A f \in ModelDump(req[a].inp) \cap {"datetime_to_do", "task_info"} :
           RowOf(rows, req[a].id)[f] = req[a].inp[f]

\* An update of task_info alone and an update of datetime_to_do alone, both
\* begun on the row as the test suite stores it, are committed.
C20_Witness ==
  \E a, b \in Slots :
    /\ CommittedUpdate(a) /\ CommittedUpdate(b) /\ req[a].id = req[b].id
    /\ ModelDump(req[a].inp) = {"task_info"}
    /\ ModelDump(req[b].inp) = {"datetime_to_do"}
    /\ req[a].old = TestTasks[1] /\ req[b].old = TestTasks[1]
    /\ RowOf(rows, req[a].id).task_info = "B"
    /\ RowOf(rows, req[a].id).datetime_to_do = "d2"

====
